---- MODULE Spec2Model ----
(***************************************************************************)
(* PolicySonar: the server-side auth loader (header extractor, token       *)
(* codec, profile lookup) and the client-side Auth Context.                *)
(*                                                                         *)
(* JavaScript values are modelled as follows.  A string that the code      *)
(* scans character by character (the Authorization header, the token) is   *)
(* a sequence of one-character strings.  Other strings are TLA+ strings;   *)
(* the JavaScript values null and undefined of such a field are the        *)
(* reserved strings Null and Undefined.  A value that is either absent or   *)
(* a structure is None or Some(v).  A call that may throw returns          *)
(* Ok(v) or Throw(e).                                                      *)
(***************************************************************************)
EXTENDS Integers, Sequences, FiniteSets, TLC

VARIABLES
  \* ---- token codec and header extractor, called as pure functions
  clock,        \* the current time, in seconds
  call,         \* the last codec call: its name, arguments and result
  \* ---- start-up: the configuration and the modules that read it
  VITE_JWT_SECRET, \* import.meta.env.VITE_JWT_SECRET (Undefined when absent)
  env,          \* the object env.ts exports (None until env.ts has run)
  console,      \* the messages written with console.error, in order
  modules,      \* which modules have been evaluated, and the error of one that threw
  \* ---- the auth loader, one request
  lpc,          \* position of the loader in its code
  request,      \* the incoming request: header, what its token decodes to, time
  token,        \* loader local: const token
  payload,      \* loader local: const payload
  lookup,       \* the profile read: its table, key and, once settled, result
  response,     \* the loader's returned Response (None until it returns)
  thrown,       \* what the loader's catch block caught (None when nothing)
  log,          \* history: the steps the loader has taken, in order
  \* ---- the client Auth Context
  user,         \* useState user
  profile,      \* useState profile
  isLoading,    \* useState isLoading
  mounted,      \* whether the provider's effect has run
  subscribed,   \* number of live onAuthStateChange subscriptions
  tasks,        \* the async calls in flight, each at its await
  session,      \* backend: the user of the current session (Null if none)
  lastSettled,  \* history: the call that settled in the last step
  lastStep,     \* history: the last step, and what the backend answered in it
  \* ---- the WebContainer module
  hasWindow,    \* typeof window !== 'undefined'
  webcontainerInstance, \* let webcontainerInstance (None for null)
  webcontainerContext,  \* the exported context: loaded, ready, resolveReady
  boots,        \* the WebContainer.boot invocations: each one's promise and its .then
  wcalls,       \* the calls of the module's functions, each at its await or settled
  wpc           \* position of the module's top-level code

bootVars   == <<VITE_JWT_SECRET, env, console, modules>>
codecVars  == <<clock, call, bootVars>>
loaderVars == <<lpc, request, token, payload, lookup, response, thrown, log>>
authVars   == <<user, profile, isLoading, mounted, subscribed, tasks, session,
                lastSettled, lastStep>>
webVars    == <<hasWindow, webcontainerInstance, webcontainerContext, boots,
                wcalls, wpc>>
vars       == <<codecVars, loaderVars, authVars, webVars>>

-----------------------------------------------------------------------------
(* JavaScript values *)

Null      == "null"
Undefined == "undefined"
None      == [some |-> FALSE]
Some(v)   == [some |-> TRUE, val |-> v]
Ok(v)     == [ok |-> TRUE, val |-> v]
\* throw e, where e is an Error with this message
Throw(m)  == [ok |-> FALSE, isError |-> TRUE, message |-> m]
\* throw e, where e is not an Error (a string, a plain object)
ThrowNonError == [ok |-> FALSE, isError |-> FALSE, message |-> Undefined]

\* !x for a string field: undefined, null and "" are falsy
Falsy(s) == s \in {Undefined, Null, ""}

-----------------------------------------------------------------------------
(* Bounds *)

MaxRest  == 3     \* longest text after the header's first word
MaxTime  == 3     \* latest clock value and latest expiry of a presented token
MaxTasks == 2     \* async calls of the Auth Context in flight at once

-----------------------------------------------------------------------------
(* Characters and headers *)

SP  == " "
TAB == "\t"
LF  == "\n"
\* String.prototype.trim removes white space and line terminators
WhiteSpace == {SP, TAB, LF}
\* the characters a header is drawn from after its first word
RestChars  == {"x", SP, LF}

BearerPrefix == <<"B", "e", "a", "r", "e", "r", " ">>

RECURSIVE SeqsUpTo(_, _)
SeqsUpTo(S, n) ==
  IF n = 0 THEN {<<>>}
  ELSE LET shorter == SeqsUpTo(S, n - 1)
       IN  shorter \cup {Append(s, c) : s \in {t \in shorter : Len(t) = n - 1}, c \in S}

\* first words: the scheme in several spellings, with and without the space
FirstWords ==
  { <<>>,
    BearerPrefix,
    <<"B", "e", "a", "r", "e", "r">>,
    <<"b", "e", "a", "r", "e", "r", " ">>,
    <<"B", "a", "s", "i", "c", " ">>,
    <<" ", "B", "e", "a", "r", "e", "r", " ">>,
    <<"B", "e", "a", "r", "e", "r", "\t">> }

HeaderStrings == {w \o r : w \in FirstWords, r \in SeqsUpTo(RestChars, MaxRest)}
\* request.headers.get('Authorization'): a string, or absent
Headers == {None} \cup {Some(h) : h \in HeaderStrings}

-----------------------------------------------------------------------------
(* Header extractor *)

\* String.prototype.startsWith
startsWith(s, p) == Len(s) >= Len(p) /\ SubSeq(s, 1, Len(p)) = p

\* String.prototype.substring(n), n within the string
substring(s, n) == SubSeq(s, n + 1, Len(s))

RECURSIVE trimStart(_)
trimStart(s) ==
  IF s # <<>> /\ Head(s) \in WhiteSpace THEN trimStart(Tail(s)) ELSE s

RECURSIVE trimEnd(_)
trimEnd(s) ==
  IF s # <<>> /\ s[Len(s)] \in WhiteSpace
  THEN trimEnd(SubSeq(s, 1, Len(s) - 1)) ELSE s

\* String.prototype.trim
trim(s) == trimEnd(trimStart(s))

\* a plausible bug: the remainder is not trimmed
extractTokenFromHeader_NoTrim(authHeader) ==
  IF ~authHeader.some \/ ~startsWith(authHeader.val, BearerPrefix) THEN None
  ELSE LET t == substring(authHeader.val, 7)
       IN  IF t = <<>> THEN None ELSE Some(t)

extractTokenFromHeader(authHeader) ==
  IF ~authHeader.some \/ ~startsWith(authHeader.val, BearerPrefix) THEN None
  ELSE LET t == trim(substring(authHeader.val, 7))
       IN  IF t = <<>> THEN None ELSE Some(t)

-----------------------------------------------------------------------------
(* Token codec *)

\* env.JWT_SECRET; the module refuses to load when it is empty
JWT_SECRET    == "configured-secret"
OtherSecret   == "another-secret"
Issuer        == "policy-sonar"
Audience      == {"web", "mobile"}
Algorithms    == {"HS256"}

AccessTtl  == 900       \* '15m' in seconds
RefreshTtl == 604800    \* '7d' in seconds

TOKEN_CONFIG ==
  [access  |-> [expiresIn |-> AccessTtl,  type |-> "access"],
   refresh |-> [expiresIn |-> RefreshTtl, type |-> "refresh"]]

Times == 0..MaxTime

\* What a token string decodes to: its header algorithm, the key its
\* signature was made with, its registered claims and its private claims.
\* aud is the set of the token's audiences (empty when the claim is absent).
SignedJwts ==
  [wellFormed : {TRUE},
   alg        : {"HS256", "HS512"},
   key        : {JWT_SECRET, OtherSecret},
   iss        : {Issuer, "evil-issuer"},
   aud        : {Audience, {"web"}, {"partner"}, {}},
   iat        : {0},
   exp        : {None} \cup {Some(t) : t \in Times},
   userId     : {"u1", "u2", "", Undefined},
   role       : {Undefined, "admin"},
   sessionId  : {Undefined, "s1"}]

\* a string that is no JWT at all
MalformedJwt ==
  [wellFormed |-> FALSE, alg |-> "HS256", key |-> OtherSecret, iss |-> Issuer,
   aud |-> {}, iat |-> 0, exp |-> None, userId |-> Undefined,
   role |-> Undefined, sessionId |-> Undefined]

Jwts == SignedJwts \cup {MalformedJwt}

\* the decoded payload verify() returns
ClaimsOf(jwt) ==
  [userId |-> jwt.userId, role |-> jwt.role, sessionId |-> jwt.sessionId,
   iss |-> jwt.iss, aud |-> jwt.aud, iat |-> jwt.iat, exp |-> jwt.exp]

\* jsonwebtoken verify(token, secret, {algorithms, issuer, audience}) at time now
JwtVerify(jwt, secret, now) ==
  IF ~jwt.wellFormed THEN Throw("jwt malformed")
  ELSE IF jwt.alg \notin Algorithms THEN Throw("invalid algorithm")
  ELSE IF jwt.key # secret THEN Throw("invalid signature")
  ELSE IF jwt.exp.some /\ now >= jwt.exp.val THEN Throw("jwt expired")
  ELSE IF jwt.aud \cap Audience = {}
       THEN Throw("jwt audience invalid. expected: web or mobile")
  ELSE IF jwt.iss # Issuer THEN Throw("jwt issuer invalid. expected: policy-sonar")
  ELSE Ok(ClaimsOf(jwt))

\* a plausible bug: the userId claim is not required
verifyToken_NoUserIdCheck(jwt, now) ==
  LET decoded == JwtVerify(jwt, JWT_SECRET, now)
  IN  IF ~decoded.ok THEN Throw("Invalid or expired token") ELSE decoded

\* a plausible bug: the catch block rethrows the library's error
verifyToken_LeakReason(jwt, now) ==
  LET decoded == JwtVerify(jwt, JWT_SECRET, now)
  IN  IF decoded.ok /\ Falsy(decoded.val.userId)
      THEN Throw("Invalid token payload") ELSE decoded

verifyToken(jwt, now) ==
  LET decoded == JwtVerify(jwt, JWT_SECRET, now)
      tried   == IF ~decoded.ok THEN decoded
                 ELSE IF Falsy(decoded.val.userId)
                      THEN Throw("Invalid token payload")
                      ELSE decoded
  IN  IF tried.ok THEN tried ELSE Throw("Invalid or expired token")

\* the option names jsonwebtoken's sign() accepts; any other is rejected
SignOptionKeys ==
  {"expiresIn", "notBefore", "audience", "algorithm", "header", "encoding",
   "issuer", "subject", "jwtid", "noTimestamp", "keyid", "mutatePayload",
   "allowInsecureKeySizes", "allowInvalidAsymmetricKeyTypes"}

\* jsonwebtoken sign(payload, secret, options) at time now
JwtSign(claims, secret, options, now) ==
  LET unknown == DOMAIN options \ SignOptionKeys
  IN  IF unknown # {}
      THEN Throw("\"" \o (CHOOSE k \in unknown : TRUE) \o "\" is not allowed in \"options\"")
      ELSE Ok([wellFormed |-> TRUE,
               alg        |-> options.algorithm,
               key        |-> secret,
               iss        |-> options.issuer,
               aud        |-> options.audience,
               iat        |-> now,
               exp        |-> Some(now + options.expiresIn),
               userId     |-> claims.userId,
               role       |-> claims.role,
               sessionId  |-> claims.sessionId])

\* the options object: TOKEN_CONFIG[tokenType] spread, then the fixed options
SignOptionsOf(tokenType) ==
  [algorithm |-> "HS256", issuer |-> Issuer, audience |-> Audience]
    @@ TOKEN_CONFIG[tokenType]

createToken(claims, tokenType, now) ==
  JwtSign(claims, JWT_SECRET, SignOptionsOf(tokenType), now)

TokenTypes == {"access", "refresh"}

\* the payloads handed to createToken
PayloadsIn ==
  [userId : {"u1", "u2", ""}, role : {Undefined, "admin"},
   sessionId : {Undefined, "s1"}]

-----------------------------------------------------------------------------
(* The codec's functions, each called on any input at any time *)

\* import.meta.env.VITE_JWT_SECRET: absent, set to nothing, or set
ConfigValues == {Undefined, "", JWT_SECRET}

\* v || ''
OrEmpty(v) == IF v \in {Undefined, ""} THEN "" ELSE v

requiredVars == <<"JWT_SECRET">>

MissingVariable(key) == "Missing required environment variable: " \o key

SecretNotSet == "JWT_SECRET environment variable is not set"

\* the messages of the validation loop of env.ts, one per required variable
\* whose value is falsy
RECURSIVE Validate(_, _)
Validate(e, keys) ==
  IF keys = <<>> THEN <<>>
  ELSE (IF e[Head(keys)] = "" THEN <<MissingVariable(Head(keys))>> ELSE <<>>)
         \o Validate(e, Tail(keys))

BootInit ==
  /\ VITE_JWT_SECRET \in ConfigValues
  /\ env = None
  /\ console = <<>>
  /\ modules = [env |-> "unloaded", jwt |-> "unloaded", error |-> Null]

CodecInit == clock = 0 /\ call = [fn |-> "none"] /\ BootInit

\* env.ts is evaluated: it builds env and validates it; it has no throw
LoadEnv ==
  /\ modules.env = "unloaded"
  /\ LET e == [JWT_SECRET |-> OrEmpty(VITE_JWT_SECRET)]
     IN /\ env' = Some(e)
        /\ console' = console \o Validate(e, requiredVars)
  /\ modules' = [modules EXCEPT !.env = "loaded"]
  /\ UNCHANGED <<clock, call, VITE_JWT_SECRET, loaderVars, authVars, webVars>>

\* the token module is evaluated without its check of the secret
LoadJwt_NoCheck ==
  /\ modules.env = "loaded"
  /\ modules.jwt = "unloaded"
  /\ modules' = [modules EXCEPT !.jwt = "loaded"]
  /\ UNCHANGED <<clock, call, VITE_JWT_SECRET, env, console, loaderVars, authVars,
                 webVars>>

\* the token module is evaluated, after the env.ts it imports
LoadJwt ==
  /\ modules.env = "loaded"
  /\ modules.jwt = "unloaded"
  /\ modules' = IF env.val.JWT_SECRET = ""
                  THEN [modules EXCEPT !.jwt = "failed", !.error = SecretNotSet]
                  ELSE [modules EXCEPT !.jwt = "loaded"]
  /\ UNCHANGED <<clock, call, VITE_JWT_SECRET, env, console, loaderVars, authVars,
                 webVars>>

Tick ==
  /\ call.fn = "none"
  /\ clock < MaxTime
  /\ clock' = clock + 1
  /\ UNCHANGED <<call, bootVars, loaderVars, authVars, webVars>>

CallExtract ==
  /\ modules.jwt = "loaded"
  /\ call.fn = "none"
  /\ \E h \in Headers :
       call' = [fn |-> "extractTokenFromHeader", header |-> h,
                ret |-> extractTokenFromHeader(h)]
  /\ UNCHANGED <<clock, bootVars, loaderVars, authVars, webVars>>

CallVerify ==
  /\ modules.jwt = "loaded"
  /\ call.fn = "none"
  /\ \E jwt \in Jwts :
       call' = [fn |-> "verifyToken", jwt |-> jwt, now |-> clock,
                ret |-> verifyToken(jwt, clock)]
  /\ UNCHANGED <<clock, bootVars, loaderVars, authVars, webVars>>

CallCreate ==
  /\ modules.jwt = "loaded"
  /\ call.fn = "none"
  /\ \E p \in PayloadsIn, k \in TokenTypes :
       call' = [fn |-> "createToken", payload |-> p, tokenType |-> k,
                now |-> clock, ret |-> createToken(p, k, clock)]
  /\ UNCHANGED <<clock, bootVars, loaderVars, authVars, webVars>>

\* the caller is done with the result
Return ==
  /\ call.fn # "none"
  /\ call' = [fn |-> "none"]
  /\ UNCHANGED <<clock, bootVars, loaderVars, authVars, webVars>>

CodecNext ==
  LoadEnv \/ LoadJwt \/ Tick \/ CallExtract \/ CallVerify \/ CallCreate \/ Return

-----------------------------------------------------------------------------
(* Auth loader *)

\* headers as request.headers.get delivers them: no line terminators
LoaderHeaders ==
  {h \in Headers : h.some => \A i \in 1..Len(h.val) : h.val[i] # LF}

\* the rows of table profiles with a given primary key
ProfileRows(id) ==
  [id         : {id},
   username   : {"alice", "bob"},
   full_name  : {Null, "Alice A"},
   avatar_url : {Null, "a.png"},
   roles      : {None, Some(<<>>), Some(<<"admin">>)}]

\* what awaiting supabase.from('profiles').select(..).eq('id', id).single()
\* gives: {data, error} with a row, {data: null, error} when no row matches
\* or the store fails, or a rejection
QueryResults(id) ==
     {Ok([data |-> Some(row), error |-> Null]) : row \in ProfileRows(id)}
  \cup {Ok([data |-> None, error |-> "PGRST116"]),
        Ok([data |-> None, error |-> "store error"]),
        Throw("fetch failed"),
        ThrowNonError}

json(body, status) == [status |-> status, body |-> body]

MissingTokenResponse_403 ==
  json([error |-> "Authorization token required"], 403)

MissingTokenResponse ==
  json([error |-> "Authorization token required"], 401)

ProfileNotFoundResponse_401 ==
  json([error |-> "User profile not found"], 401)

ProfileNotFoundResponse ==
  json([error |-> "User profile not found"], 404)

\* a plausible bug: the placeholder email is built from the id
SuccessResponse_EmailFromId(p, row) ==
  json([user    |-> [id       |-> p.userId,
                     email    |-> p.userId \o "@example.com",
                     username |-> row.username,
                     name     |-> row.full_name,
                     avatar   |-> row.avatar_url,
                     roles    |-> IF row.roles.some THEN row.roles.val ELSE <<>>],
        session |-> p.sessionId], 200)

SuccessResponse(p, row) ==
  json([user    |-> [id       |-> p.userId,
                     email    |-> row.username \o "@example.com",
                     username |-> row.username,
                     name     |-> row.full_name,
                     avatar   |-> row.avatar_url,
                     roles    |-> IF row.roles.some THEN row.roles.val ELSE <<>>],
        session |-> p.sessionId], 200)

\* a plausible bug: details is error.message whatever was thrown
CatchResponse_NoInstanceof(e) ==
  json([error |-> "Authentication failed", details |-> e.message], 401)

\* the catch block
CatchResponse(e) ==
  json([error   |-> "Authentication failed",
        details |-> IF e.isError THEN e.message ELSE "Unknown error"], 401)

Step(name, id) == [step |-> name, id |-> id]

LoaderInit ==
  /\ lpc = "start"
  /\ request \in [header : LoaderHeaders, jwt : Jwts, now : Times]
  \* jwt is what the header's token decodes to: without a token, nothing
  /\ ~extractTokenFromHeader(request.header).some => request.jwt = MalformedJwt
  /\ token = None
  /\ payload = None
  /\ lookup = None
  /\ response = None
  /\ thrown = None
  /\ log = <<>>

\* lines 15-23: read the header, extract the token, return 401 without one
LoaderExtract ==
  /\ lpc = "start"
  /\ LET t == extractTokenFromHeader(request.header)
     IN  /\ token' = t
         /\ log' = Append(log, Step("extract", Undefined))
         /\ IF ~t.some
            THEN /\ response' = Some(MissingTokenResponse)
                 /\ lpc' = "done"
            ELSE /\ lpc' = "verify"
                 /\ UNCHANGED response
  /\ UNCHANGED <<request, payload, lookup, thrown, codecVars, authVars, webVars>>

\* line 26: verify the token; a throw lands in the catch block
LoaderVerify ==
  /\ lpc = "verify"
  /\ LET r == verifyToken(request.jwt, request.now)
     IN  /\ log' = Append(log, Step("verify", Undefined))
         /\ IF r.ok
            THEN /\ payload' = Some(r.val)
                 /\ lpc' = "query"
                 /\ UNCHANGED <<response, thrown>>
            ELSE /\ thrown' = Some(r)
                 /\ response' = Some(CatchResponse(r))
                 /\ lpc' = "done"
                 /\ UNCHANGED payload
  /\ UNCHANGED <<request, token, lookup, codecVars, authVars, webVars>>

\* lines 29-33: issue the single-row read and await it
LoaderQuery ==
  /\ lpc = "query"
  /\ lookup' = Some([table |-> "profiles", op |-> "select",
                      id |-> payload.val.userId, result |-> None])
  /\ log' = Append(log, Step("select", payload.val.userId))
  /\ lpc' = "await"
  /\ UNCHANGED <<request, token, payload, response, thrown, codecVars, authVars, webVars>>

\* a plausible bug: a failed read is issued again
LoaderResolve_Retry ==
  /\ lpc = "await"
  /\ ~lookup.val.result.some
  /\ \E r \in QueryResults(lookup.val.id) :
       /\ lookup' = Some([lookup.val EXCEPT !.result = Some(r)])
       /\ IF ~r.ok
          THEN /\ lpc' = "query"
               /\ UNCHANGED <<response, thrown, log>>
          ELSE IF r.val.error # Null \/ ~r.val.data.some
          THEN /\ response' = Some(ProfileNotFoundResponse)
               /\ lpc' = "done"
               /\ UNCHANGED <<thrown, log>>
          ELSE /\ response' = Some(SuccessResponse(payload.val, r.val.data.val))
               /\ log' = Append(log, Step("assemble", Undefined))
               /\ lpc' = "done"
               /\ UNCHANGED thrown
  /\ UNCHANGED <<request, token, payload, codecVars, authVars, webVars>>

\* lines 35-53 and the catch block: the read settles and the loader returns
LoaderResolve ==
  /\ lpc = "await"
  /\ ~lookup.val.result.some
  /\ \E r \in QueryResults(lookup.val.id) :
       /\ lookup' = Some([lookup.val EXCEPT !.result = Some(r)])
       /\ IF ~r.ok
          THEN /\ thrown' = Some(r)
               /\ response' = Some(CatchResponse(r))
               /\ UNCHANGED log
          ELSE IF r.val.error # Null \/ ~r.val.data.some
          THEN /\ response' = Some(ProfileNotFoundResponse)
               /\ UNCHANGED <<thrown, log>>
          ELSE /\ response' = Some(SuccessResponse(payload.val, r.val.data.val))
               /\ log' = Append(log, Step("assemble", Undefined))
               /\ UNCHANGED thrown
       /\ lpc' = "done"
  /\ UNCHANGED <<request, token, payload, codecVars, authVars, webVars>>

LoaderNext == LoaderExtract \/ LoaderVerify \/ LoaderQuery \/ LoaderResolve

-----------------------------------------------------------------------------
(* Client Auth Context *)

Users     == {"u1", "u2"}
Emails    == {"a@example.com", "b@example.com"}
Passwords == {"right", "wrong"}

\* the backend's accounts: the user and the password of each email
AccountOf(email) ==
  IF email = "a@example.com" THEN [user |-> "u1", password |-> "right"]
  ELSE [user |-> "u2", password |-> "right"]

\* the backend's table profiles: u2's row has no roles field
AuthProfileOf(uid) ==
  IF uid = "u1" THEN [id |-> "u1", username |-> "alice", roles |-> Some(<<"admin">>)]
  ELSE [id |-> uid, username |-> "bob", roles |-> None]

Slots == 1..MaxTasks
Idle  == [op |-> "idle", at |-> "idle", uid |-> Null, arg |-> <<>>]
Task(op, at, uid, arg) == [op |-> op, at |-> at, uid |-> uid, arg |-> arg]
Settled(op, outcome, error) == [op |-> op, outcome |-> outcome, error |-> error]
NothingSettled == Settled("none", "none", Null)
\* a step of the provider: the user and the error the backend answered with
\* in it (Null when none), and for a hasRole call its argument and result
Stepped(action, u, error) ==
  [action |-> action, user |-> u, error |-> error, role |-> Null, ret |-> FALSE]
NoStep == Stepped("none", Null, Null)

FreeSlots == {i \in Slots : tasks[i] = Idle}
\* a new async call takes the first free slot
Spawn(t) ==
  /\ FreeSlots # {}
  /\ tasks' = [tasks EXCEPT ![CHOOSE i \in FreeSlots : \A j \in FreeSlots : i <= j] = t]

AuthInit ==
  /\ user = Null
  /\ profile = None
  /\ isLoading = TRUE
  /\ mounted = "no"
  /\ subscribed = 0
  /\ tasks = [i \in Slots |-> Idle]
  /\ session \in Users \cup {Null}
  /\ lastSettled = NothingSettled
  /\ lastStep = NoStep

\* a plausible bug: any loaded role counts
hasRole_AnyRole(role) ==
  profile.some /\ profile.val.roles.some /\ Len(profile.val.roles.val) > 0

\* hasRole(role): profile?.roles?.includes(role) ?? false
hasRole(role) ==
  profile.some /\ profile.val.roles.some
    /\ \E i \in 1..Len(profile.val.roles.val) : profile.val.roles.val[i] = role

\* the effect at mount: initializeAuth() runs to its first await, then the
\* provider subscribes to the backend's auth-state changes
Mount ==
  /\ mounted = "no"
  /\ mounted' = "yes"
  /\ isLoading' = TRUE
  /\ Spawn(Task("init", "getUser", Null, <<>>))
  /\ subscribed' = subscribed + 1
  /\ lastSettled' = NothingSettled
  /\ lastStep' = Stepped("Mount", Null, Null)
  /\ UNCHANGED <<user, profile, session, codecVars, loaderVars, webVars>>

\* the effect's cleanup
Unmount ==
  /\ mounted = "yes"
  /\ mounted' = "gone"
  /\ subscribed' = subscribed - 1
  /\ lastSettled' = NothingSettled
  /\ lastStep' = Stepped("Unmount", Null, Null)
  /\ UNCHANGED <<user, profile, isLoading, tasks, session, codecVars, loaderVars, webVars>>

\* initializeAuth after await supabase.auth.getUser()
InitGotUser ==
  \E i \in Slots, outcome \in {"resolved", "rejected"} :
    /\ tasks[i].op = "init" /\ tasks[i].at = "getUser"
    /\ IF outcome = "rejected"
       THEN /\ tasks' = [tasks EXCEPT ![i] = Idle]
            /\ lastSettled' = Settled("init", "rejected", "getUser failed")
            /\ UNCHANGED <<user, isLoading>>
       ELSE IF session # Null
       THEN /\ user' = session
            /\ tasks' = [tasks EXCEPT ![i] = Task("init", "fetchProfile", session, <<>>)]
            /\ lastSettled' = NothingSettled
            /\ UNCHANGED isLoading
       ELSE /\ isLoading' = FALSE
            /\ tasks' = [tasks EXCEPT ![i] = Idle]
            /\ lastSettled' = Settled("init", "resolved", Null)
            /\ UNCHANGED user
    /\ lastStep' = IF outcome = "rejected"
                   THEN Stepped("InitGotUser", Null, "getUser failed")
                   ELSE Stepped("InitGotUser", session, Null)
    /\ UNCHANGED <<profile, mounted, subscribed, session, codecVars, loaderVars, webVars>>

\* fetchProfile after its await, and its caller's continuation: initializeAuth
\* sets isLoading false, the auth-state callback just ends
FetchProfileSettle ==
  \E i \in Slots, outcome \in {"row", "error", "rejected"} :
    /\ tasks[i].at = "fetchProfile"
    /\ tasks' = [tasks EXCEPT ![i] = Idle]
    /\ profile' = IF outcome = "row" THEN Some(AuthProfileOf(tasks[i].uid)) ELSE profile
    /\ isLoading' = IF tasks[i].op = "init" /\ outcome # "rejected" THEN FALSE ELSE isLoading
    /\ lastSettled' = IF outcome = "rejected"
                      THEN Settled(tasks[i].op, "rejected", "fetch failed")
                      ELSE Settled(tasks[i].op, "resolved", Null)
    /\ lastStep' = Stepped("FetchProfileSettle", tasks[i].uid,
                          IF outcome = "row" THEN Null
                          ELSE IF outcome = "error" THEN "PGRST116" ELSE "fetch failed")
    /\ UNCHANGED <<user, mounted, subscribed, session, codecVars, loaderVars, webVars>>

\* a plausible bug: a notification without a session leaves the profile
Notify_KeepProfile ==
  /\ subscribed > 0
  /\ IF session # Null
     THEN /\ user' = session
          /\ Spawn(Task("notify", "fetchProfile", session, <<>>))
          /\ UNCHANGED profile
     ELSE /\ user' = Null
          /\ UNCHANGED <<profile, tasks>>
  /\ lastSettled' = NothingSettled
  /\ lastStep' = Stepped("Notify", session, Null)
  /\ UNCHANGED <<isLoading, mounted, subscribed, session, codecVars, loaderVars, webVars>>

\* the onAuthStateChange callback, called with the backend's session
Notify ==
  /\ subscribed > 0
  /\ IF session # Null
     THEN /\ user' = session
          /\ Spawn(Task("notify", "fetchProfile", session, <<>>))
          /\ UNCHANGED profile
     ELSE /\ user' = Null
          /\ profile' = None
          /\ UNCHANGED tasks
  /\ lastSettled' = NothingSettled
  /\ lastStep' = Stepped("Notify", session, Null)
  /\ UNCHANGED <<isLoading, mounted, subscribed, session, codecVars, loaderVars, webVars>>

\* the backend's session changes outside this provider: it expires, or
\* another tab signs in or out
ExternalSessionChange ==
  /\ \E s \in (Users \cup {Null}) \ {session} : session' = s
  /\ lastSettled' = NothingSettled
  /\ lastStep' = Stepped("ExternalSessionChange", session', Null)
  /\ UNCHANGED <<user, profile, isLoading, mounted, subscribed, tasks, codecVars, loaderVars, webVars>>

\* signIn(email, password) up to its await
SignInStart ==
  /\ mounted = "yes"
  /\ \E email \in Emails, password \in Passwords :
       Spawn(Task("signIn", "signInWithPassword", Null, <<email, password>>))
  /\ isLoading' = TRUE
  /\ lastSettled' = NothingSettled
  /\ lastStep' = Stepped("SignInStart", Null, Null)
  /\ UNCHANGED <<user, profile, mounted, subscribed, session, codecVars, loaderVars, webVars>>

\* a plausible bug: the backend's error is replaced by a new one
SignInSettle_WrapError ==
  \E i \in Slots, outcome \in {"resolved", "rejected"} :
    /\ tasks[i].op = "signIn"
    /\ tasks' = [tasks EXCEPT ![i] = Idle]
    /\ isLoading' = FALSE
    /\ LET account == AccountOf(tasks[i].arg[1])
       IN  IF outcome = "rejected"
           THEN /\ lastSettled' = Settled("signIn", "rejected", "fetch failed")
                /\ UNCHANGED <<user, session>>
           ELSE IF tasks[i].arg[2] # account.password
           THEN /\ lastSettled' = Settled("signIn", "rejected", "Sign in failed")
                /\ UNCHANGED <<user, session>>
           ELSE /\ session' = account.user
                /\ user' = account.user
                /\ lastSettled' = Settled("signIn", "rejected",
                                          "ReferenceError: fetchProfile is not defined")
    /\ lastStep' = IF outcome = "rejected"
                   THEN Stepped("SignInSettle", Null, "fetch failed")
                   ELSE IF tasks[i].arg[2] # AccountOf(tasks[i].arg[1]).password
                   THEN Stepped("SignInSettle", Null, "Invalid login credentials")
                   ELSE Stepped("SignInSettle", AccountOf(tasks[i].arg[1]).user, Null)
    /\ UNCHANGED <<profile, mounted, subscribed, codecVars, loaderVars, webVars>>

\* signIn after await supabase.auth.signInWithPassword(): on an error the
\* error is thrown; on success setUser, then the call of fetchProfile, a name
\* that is not in scope outside the effect, throws a ReferenceError; finally
\* sets isLoading false either way
SignInSettle ==
  \E i \in Slots, outcome \in {"resolved", "rejected"} :
    /\ tasks[i].op = "signIn"
    /\ tasks' = [tasks EXCEPT ![i] = Idle]
    /\ isLoading' = FALSE
    /\ LET account == AccountOf(tasks[i].arg[1])
       IN  IF outcome = "rejected"
           THEN /\ lastSettled' = Settled("signIn", "rejected", "fetch failed")
                /\ UNCHANGED <<user, session>>
           ELSE IF tasks[i].arg[2] # account.password
           THEN /\ lastSettled' = Settled("signIn", "rejected", "Invalid login credentials")
                /\ UNCHANGED <<user, session>>
           ELSE /\ session' = account.user
                /\ user' = account.user
                /\ lastSettled' = Settled("signIn", "rejected",
                                          "ReferenceError: fetchProfile is not defined")
    /\ lastStep' = IF outcome = "rejected"
                   THEN Stepped("SignInSettle", Null, "fetch failed")
                   ELSE IF tasks[i].arg[2] # AccountOf(tasks[i].arg[1]).password
                   THEN Stepped("SignInSettle", Null, "Invalid login credentials")
                   ELSE Stepped("SignInSettle", AccountOf(tasks[i].arg[1]).user, Null)
    /\ UNCHANGED <<profile, mounted, subscribed, codecVars, loaderVars, webVars>>

\* signOut() up to its await
SignOutStart ==
  /\ mounted = "yes"
  /\ Spawn(Task("signOut", "signOut", Null, <<>>))
  /\ isLoading' = TRUE
  /\ lastSettled' = NothingSettled
  /\ lastStep' = Stepped("SignOutStart", Null, Null)
  /\ UNCHANGED <<user, profile, mounted, subscribed, session, codecVars, loaderVars, webVars>>

\* signOut after await supabase.auth.signOut(): the result, error or not, is
\* not looked at; a rejection skips the two setters; finally sets isLoading
SignOutSettle ==
  \E i \in Slots, outcome \in {"signed out", "error returned", "rejected"} :
    /\ tasks[i].op = "signOut"
    /\ tasks' = [tasks EXCEPT ![i] = Idle]
    /\ isLoading' = FALSE
    /\ session' = IF outcome = "signed out" THEN Null ELSE session
    /\ IF outcome = "rejected"
       THEN /\ lastSettled' = Settled("signOut", "rejected", "fetch failed")
            /\ UNCHANGED <<user, profile>>
       ELSE /\ user' = Null
            /\ profile' = None
            /\ lastSettled' = Settled("signOut", "resolved",
                                      IF outcome = "error returned" THEN "AuthError" ELSE Null)
    /\ lastStep' = Stepped("SignOutSettle", Null,
                          IF outcome = "signed out" THEN Null
                          ELSE IF outcome = "error returned" THEN "AuthError"
                          ELSE "fetch failed")
    /\ UNCHANGED <<mounted, subscribed, codecVars, loaderVars, webVars>>

\* refreshSession() up to its await
RefreshStart ==
  /\ mounted = "yes"
  /\ Spawn(Task("refresh", "getUser", Null, <<>>))
  /\ lastSettled' = NothingSettled
  /\ lastStep' = Stepped("RefreshStart", Null, Null)
  /\ UNCHANGED <<user, profile, isLoading, mounted, subscribed, session, codecVars, loaderVars, webVars>>

\* refreshSession after await supabase.auth.getUser(): setUser, then with a
\* user the call of fetchProfile throws a ReferenceError as in signIn
RefreshSettle ==
  \E i \in Slots, outcome \in {"resolved", "rejected"} :
    /\ tasks[i].op = "refresh"
    /\ tasks' = [tasks EXCEPT ![i] = Idle]
    /\ IF outcome = "rejected"
       THEN /\ lastSettled' = Settled("refresh", "rejected", "getUser failed")
            /\ UNCHANGED user
       ELSE /\ user' = session
            /\ lastSettled' =
                 IF session # Null
                 THEN Settled("refresh", "rejected",
                              "ReferenceError: fetchProfile is not defined")
                 ELSE Settled("refresh", "resolved", Null)
    /\ lastStep' = IF outcome = "rejected"
                   THEN Stepped("RefreshSettle", Null, "getUser failed")
                   ELSE Stepped("RefreshSettle", session, Null)
    /\ UNCHANGED <<profile, isLoading, mounted, subscribed, session, codecVars, loaderVars, webVars>>

\* a component calls hasRole(role) of the context value
Roles == {"admin", "analyst"}
HasRoleCall ==
  /\ mounted = "yes"
  /\ \E role \in Roles :
       lastStep' = [Stepped("hasRole", Null, Null) EXCEPT !.role = role, !.ret = hasRole(role)]
  /\ lastSettled' = NothingSettled
  /\ UNCHANGED <<user, profile, isLoading, mounted, subscribed, tasks, session, codecVars, loaderVars, webVars>>

AuthNext ==
  \/ Mount \/ Unmount \/ InitGotUser \/ FetchProfileSettle \/ Notify
  \/ ExternalSessionChange
  \/ SignInStart \/ SignInSettle \/ SignOutStart \/ SignOutSettle
  \/ RefreshStart \/ RefreshSettle \/ HasRoleCall

-----------------------------------------------------------------------------
(* The WebContainer module: one boot shared by every caller *)

MaxWebCalls == 3
MaxBoots    == 2

WebSlots == 1..MaxWebCalls

\* the status of initializeWebContainerAuth's result: the library's three, or
\* 'error' from its catch block
AuthStatuses == {"authorized", "need-auth", "auth-failed", "error"}

NotInitialized == "WebContainer not initialized - call initializeWebContainer() first"
InitFailed     == "Failed to initialize WebContainer"

\* what the Promise executor's write to the not yet initialised binding
\* webcontainerContext throws: a ReferenceError for a const binding, a
\* TypeError where the build has turned it into var
ExecutorErrors == {"ReferenceError", "TypeError"}

\* the object literal of webcontainerContext. Its ready executor runs while the
\* literal is being evaluated, so the binding it writes resolveReady to is
\* uninitialised: the executor throws, ready is rejected with what it threw
\* and resolveReady is never set
NewContext(thrownByExecutor) ==
  LET binding == Undefined
      threw   == binding = Undefined
  IN  [loaded       |-> FALSE,
       ready        |-> IF threw THEN "rejected" ELSE "pending",
       reason       |-> IF threw THEN thrownByExecutor ELSE Null,
       resolveReady |-> IF threw THEN Undefined ELSE "resolve"]

WIdle == [fn |-> "none", origin |-> "none", at |-> "none", ret |-> None, error |-> Null]

WCall(fn, origin, at, ret, error) ==
  [fn |-> fn, origin |-> origin, at |-> at, ret |-> ret, error |-> error]

\* the promise a call returned is rejected: by its own throw, or because it
\* follows a webcontainerInstance that is rejected
Rejected(c) ==
  \/ c.at = "rejected"
  \/ c.at = "returned" /\ c.ret.some /\ boots[c.ret.val].then = "rejected"

WebInit ==
  /\ hasWindow \in BOOLEAN
  /\ webcontainerInstance = None
  /\ \E e \in ExecutorErrors : webcontainerContext = NewContext(e)
  /\ boots = <<>>
  /\ wcalls = [i \in WebSlots |-> WIdle]
  /\ wpc = "loading"

\* the end of the module's top-level code: in a browser it calls
\* initializeWebContainer, which runs up to its first await
LoadModule ==
  /\ wpc = "loading"
  /\ wpc' = "loaded"
  /\ wcalls' = IF hasWindow
                 THEN [wcalls EXCEPT ![1] =
                         WCall("initializeWebContainer", "module", "auth", None, Null)]
                 ELSE wcalls
  /\ UNCHANGED <<hasWindow, webcontainerInstance, webcontainerContext, boots,
                 codecVars, loaderVars, authVars>>

\* initializeWebContainer() up to its first await; without a window it
\* returns undefined at once
InitializeStart ==
  /\ wpc # "loading"
  /\ \E i \in WebSlots :
       /\ wcalls[i] = WIdle
       /\ wcalls' = [wcalls EXCEPT ![i] =
            IF hasWindow
              THEN WCall("initializeWebContainer", "caller", "auth", None, Null)
              ELSE WCall("initializeWebContainer", "caller", "returned", None, Null)]
  /\ UNCHANGED <<hasWindow, webcontainerInstance, webcontainerContext, boots, wpc,
                 codecVars, loaderVars, authVars>>

\* the same step with the test of webcontainerInstance left out
AuthSettle_AlwaysBoot ==
  /\ \E i \in WebSlots, status \in AuthStatuses :
       /\ wcalls[i].at = "auth"
       /\ IF status = "error"
            THEN /\ wcalls' = [wcalls EXCEPT ![i].at = "rejected", ![i].error = InitFailed]
                 /\ UNCHANGED <<webcontainerInstance, boots>>
            ELSE /\ Len(boots) < MaxBoots
                 /\ boots' = Append(boots, [boot |-> "pending", then |-> "pending"])
                 /\ webcontainerInstance' = Some(Len(boots) + 1)
                 /\ wcalls' = [wcalls EXCEPT ![i].at = "returned",
                                             ![i].ret = webcontainerInstance']
  /\ UNCHANGED <<hasWindow, webcontainerContext, wpc, codecVars, loaderVars, authVars>>

\* initializeWebContainer() from the auth result to its return: the test of
\* webcontainerInstance, the boot and the assignment are one synchronous run
AuthSettle ==
  /\ \E i \in WebSlots, status \in AuthStatuses :
       /\ wcalls[i].at = "auth"
       /\ IF status = "error"
            THEN /\ wcalls' = [wcalls EXCEPT ![i].at = "rejected", ![i].error = InitFailed]
                 /\ UNCHANGED <<webcontainerInstance, boots>>
            ELSE /\ IF webcontainerInstance = None
                      THEN /\ Len(boots) < MaxBoots
                           /\ boots' = Append(boots, [boot |-> "pending", then |-> "pending"])
                           /\ webcontainerInstance' = Some(Len(boots) + 1)
                      ELSE UNCHANGED <<webcontainerInstance, boots>>
                 /\ wcalls' = [wcalls EXCEPT ![i].at = "returned",
                                             ![i].ret = webcontainerInstance']
  /\ UNCHANGED <<hasWindow, webcontainerContext, wpc, codecVars, loaderVars, authVars>>

\* a boot settles. When it resolves, the .then callback sets loaded and calls
\* resolveReady, which throws when resolveReady is not a function; otherwise
\* it goes on to ensureDefaultFilesystem, which catches its own errors
BootSettle ==
  /\ \E k \in 1..Len(boots), outcome \in {"resolved", "rejected"} :
       /\ boots[k].boot = "pending"
       /\ IF outcome = "rejected"
            THEN /\ boots' = [boots EXCEPT ![k] = [boot |-> "rejected", then |-> "rejected"]]
                 /\ UNCHANGED webcontainerContext
            ELSE LET callable == webcontainerContext.resolveReady # Undefined
                 IN /\ webcontainerContext' =
                         [webcontainerContext EXCEPT
                            !.loaded = TRUE,
                            !.ready = IF callable /\ @ = "pending" THEN "resolved" ELSE @]
                    /\ boots' = [boots EXCEPT ![k] =
                         [boot |-> "resolved",
                          then |-> IF callable THEN "resolved" ELSE "rejected"]]
  /\ UNCHANGED <<hasWindow, webcontainerInstance, wcalls, wpc,
                 codecVars, loaderVars, authVars>>

\* the .catch of the call made at module load
ModuleCatch ==
  /\ wpc = "loaded"
  /\ wcalls[1].origin = "module"
  /\ Rejected(wcalls[1])
  /\ webcontainerContext' = [webcontainerContext EXCEPT !.loaded = FALSE]
  /\ wpc' = "caught"
  /\ UNCHANGED <<hasWindow, webcontainerInstance, boots, wcalls,
                 codecVars, loaderVars, authVars>>

\* getWebContainer() up to its await of webcontainerContext.ready
GetStart ==
  /\ wpc # "loading"
  /\ \E i \in WebSlots :
       /\ wcalls[i] = WIdle
       /\ wcalls' = [wcalls EXCEPT ![i] =
            IF webcontainerInstance = None
              THEN WCall("getWebContainer", "caller", "rejected", None, NotInitialized)
              ELSE WCall("getWebContainer", "caller", "ready", None, Null)]
  /\ UNCHANGED <<hasWindow, webcontainerInstance, webcontainerContext, boots, wpc,
                 codecVars, loaderVars, authVars>>

\* getWebContainer() after the await
GetSettle ==
  /\ \E i \in WebSlots :
       /\ wcalls[i].at = "ready"
       /\ webcontainerContext.ready # "pending"
       /\ wcalls' = [wcalls EXCEPT ![i] =
            IF webcontainerContext.ready = "rejected"
              THEN [@ EXCEPT !.at = "rejected", !.error = webcontainerContext.reason]
              ELSE [@ EXCEPT !.at = "returned", !.ret = webcontainerInstance]]
  /\ UNCHANGED <<hasWindow, webcontainerInstance, webcontainerContext, boots, wpc,
                 codecVars, loaderVars, authVars>>

\* a caller drops the promise it got
Forget ==
  /\ \E i \in WebSlots :
       /\ wcalls[i].origin = "caller"
       /\ wcalls[i].at \in {"returned", "rejected"}
       /\ wcalls' = [wcalls EXCEPT ![i] = WIdle]
  /\ UNCHANGED <<hasWindow, webcontainerInstance, webcontainerContext, boots, wpc,
                 codecVars, loaderVars, authVars>>

WebNext ==
  \/ LoadModule \/ InitializeStart \/ AuthSettle \/ BootSettle \/ ModuleCatch
  \/ GetStart \/ GetSettle \/ Forget

-----------------------------------------------------------------------------
(* Specifications: each part of the program on its own, and all together *)

BootDone ==
  /\ VITE_JWT_SECRET = JWT_SECRET
  /\ env = Some([JWT_SECRET |-> JWT_SECRET])
  /\ console = <<>>
  /\ modules = [env |-> "loaded", jwt |-> "loaded", error |-> Null]
CodecIdle  == clock = 0 /\ call = [fn |-> "none"] /\ BootDone
LoaderIdle ==
  /\ lpc = "idle" /\ request = None /\ token = None /\ payload = None
  /\ lookup = None /\ response = None /\ thrown = None /\ log = <<>>
AuthIdle ==
  /\ user = Null /\ profile = None /\ isLoading = TRUE /\ mounted = "no"
  /\ subscribed = 0 /\ tasks = [i \in Slots |-> Idle] /\ session = Null
  /\ lastSettled = NothingSettled /\ lastStep = NoStep

WebIdle ==
  /\ hasWindow = FALSE /\ webcontainerInstance = None
  /\ webcontainerContext = NewContext("ReferenceError")
  /\ boots = <<>> /\ wcalls = [i \in WebSlots |-> WIdle] /\ wpc = "loading"

CodecSpecInit  == CodecInit /\ LoaderIdle /\ AuthIdle /\ WebIdle
LoaderSpecInit == LoaderInit /\ CodecIdle /\ AuthIdle /\ WebIdle
AuthSpecInit   == AuthInit /\ CodecIdle /\ LoaderIdle /\ WebIdle
WebSpecInit    == WebInit /\ CodecIdle /\ LoaderIdle /\ AuthIdle

CodecSpec  == CodecSpecInit /\ [][CodecNext]_vars
LoaderSpec == LoaderSpecInit /\ [][LoaderNext]_vars
AuthSpec   == AuthSpecInit /\ [][AuthNext]_vars
WebSpec    == WebSpecInit /\ [][WebNext]_vars

Init == CodecInit /\ LoaderInit /\ AuthInit /\ WebInit
Next == CodecNext \/ LoaderNext \/ AuthNext \/ WebNext
Spec == Init /\ [][Next]_vars

-----------------------------------------------------------------------------
(* Properties of the auth loader, under LoaderSpec *)

LogSteps == [i \in 1..Len(log) |-> log[i].step]

\* the sub-reasons for which a token fails verification at time now
FailureReasons(jwt, now) ==
     (IF ~jwt.wellFormed THEN {"malformed"} ELSE {})
  \cup (IF jwt.alg # "HS256" THEN {"algorithm"} ELSE {})
  \cup (IF jwt.key # JWT_SECRET THEN {"signature"} ELSE {})
  \cup (IF jwt.exp.some /\ jwt.exp.val <= now THEN {"expired"} ELSE {})
  \cup (IF jwt.iss # Issuer THEN {"issuer"} ELSE {})
  \cup (IF jwt.aud \cap Audience = {} THEN {"audience"} ELSE {})
  \cup (IF jwt.userId \in {"", Undefined} THEN {"userId"} ELSE {})

\* C1: a request whose Authorization header is absent, or from whose header
\* the extractor returns absent, is answered 401 {error: "Authorization token
\* required"}, and neither token verification nor a profile lookup has run.
C1_MissingToken ==
  (lpc = "done" /\ (~request.header.some \/ ~extractTokenFromHeader(request.header).some))
    => /\ response = Some([status |-> 401,
                           body |-> [error |-> "Authorization token required"]])
       /\ \A i \in 1..Len(log) : log[i].step \notin {"verify", "select"}
       /\ lookup = None
       /\ payload = None

C1_Witness ==
  lpc = "done" /\ ~request.header.some /\ response.some

\* C2: a request whose extracted token fails verification is answered 401
\* with error "Authentication failed" and a details string, no profile
\* lookup has run, and status and body are the same response whatever the
\* set of sub-reasons for which the token fails.
C2_InvalidToken ==
  (lpc = "done" /\ token.some /\ FailureReasons(request.jwt, request.now) # {})
    => /\ response = Some([status |-> 401,
                           body |-> [error |-> "Authentication failed",
                                     details |-> "Invalid or expired token"]])
       /\ lookup = None
       /\ \A i \in 1..Len(log) : log[i].step # "select"

C2_Witness ==
  /\ lpc = "done" /\ token.some /\ response.some
  /\ FailureReasons(request.jwt, request.now) = {"expired"}

\* the profile read has settled with this kind of result
LookupSettled == lookup.some /\ lookup.val.result.some
LookupResult  == lookup.val.result.val

\* C3: with a token that verifies, when the profile lookup by payload.userId
\* returns no row or returns an error, the answer is 404 {error: "User
\* profile not found"}.
C3_ProfileUnavailable ==
  (/\ lpc = "done" /\ FailureReasons(request.jwt, request.now) = {}
   /\ LookupSettled /\ LookupResult.ok
   /\ (LookupResult.val.error # Null \/ ~LookupResult.val.data.some))
    => /\ response = Some([status |-> 404,
                           body |-> [error |-> "User profile not found"]])
       /\ lookup.val.id = request.jwt.userId

C3_Witness ==
  /\ lpc = "done" /\ LookupSettled /\ LookupResult.ok
  /\ LookupResult.val.error = "store error" /\ response.some

\* C4: with a verified token and a found profile row the answer is 200 with
\* user.id = payload.userId, user.email = username + "@example.com",
\* username, name and avatar copied from the row's username, full_name and
\* avatar_url, roles the row's roles or the empty list when they are null,
\* and session = payload.sessionId (undefined when the token has none).
C4_Success ==
  (/\ lpc = "done" /\ FailureReasons(request.jwt, request.now) = {}
   /\ LookupSettled /\ LookupResult.ok
   /\ LookupResult.val.error = Null /\ LookupResult.val.data.some)
    => LET row == LookupResult.val.data.val
       IN  /\ response.some
           /\ response.val.status = 200
           /\ DOMAIN response.val.body = {"user", "session"}
           /\ response.val.body.user.id = request.jwt.userId
           /\ response.val.body.user.email = row.username \o "@example.com"
           /\ response.val.body.user.username = row.username
           /\ response.val.body.user.name = row.full_name
           /\ response.val.body.user.avatar = row.avatar_url
           /\ response.val.body.user.roles =
                (IF row.roles = None THEN <<>> ELSE row.roles.val)
           /\ response.val.body.session = request.jwt.sessionId

C4_Witness ==
  /\ lpc = "done" /\ LookupSettled /\ LookupResult.ok
  /\ LookupResult.val.data.some
  /\ LookupResult.val.data.val.roles = None
  /\ LookupResult.val.data.val.username = "alice"
  /\ request.jwt.userId = "u1" /\ request.jwt.sessionId = Undefined
  /\ response.some /\ response.val.status = 200

\* the four responses the loader defines
DefinedResponse(r) ==
  \/ r = [status |-> 401, body |-> [error |-> "Authorization token required"]]
  \/ /\ r.status = 401
     /\ DOMAIN r.body = {"error", "details"}
     /\ r.body.error = "Authentication failed"
  \/ r = [status |-> 404, body |-> [error |-> "User profile not found"]]
  \/ r.status = 200 /\ DOMAIN r.body = {"user", "session"}

\* C5: the loader always returns: a request that has ended has exactly one
\* of the four defined responses, and until then a next step exists; when
\* verification threw, or the profile lookup rejected, the response is 401
\* "Authentication failed" with details the thrown Error's message, or
\* "Unknown error" when the thrown value is not an Error.
C5_CatchAll ==
  /\ (lpc = "done") <=> response.some
  /\ lpc # "done" => ENABLED LoaderNext
  /\ response.some => DefinedResponse(response.val)
  /\ (lpc = "done" /\ token.some /\ FailureReasons(request.jwt, request.now) # {})
       => /\ response.val.status = 401
          /\ response.val.body.error = "Authentication failed"
          /\ response.val.body.details = thrown.val.message
  /\ (lpc = "done" /\ LookupSettled /\ ~LookupResult.ok)
       => /\ response.val.status = 401
          /\ response.val.body.error = "Authentication failed"
          /\ response.val.body.details =
               (IF LookupResult.isError THEN LookupResult.message ELSE "Unknown error")

C5_Witness ==
  /\ lpc = "done" /\ LookupSettled /\ ~LookupResult.ok /\ ~LookupResult.isError
  /\ response.some

\* whether sequence s is a prefix of sequence t
IsPrefix(s, t) == Len(s) <= Len(t) /\ SubSeq(t, 1, Len(s)) = s

\* C6: the steps taken are a prefix of extract, verify, profile lookup,
\* assemble; a profile lookup is issued only after the token has verified
\* and only with the verified payload's userId; at most one external read is
\* issued per request (none is issued again), and none is a write.
C6_StepOrder ==
  /\ IsPrefix(LogSteps, <<"extract", "verify", "select", "assemble">>)
  /\ \A i \in 1..Len(log) :
       log[i].step = "select"
         => /\ FailureReasons(request.jwt, request.now) = {}
            /\ log[i].id = request.jwt.userId
            /\ lookup.some /\ lookup.val.id = log[i].id
  /\ Cardinality({i \in 1..Len(log) : log[i].step = "select"}) <= 1
  /\ lookup.some => (lookup.val.op = "select" /\ \E i \in 1..Len(log) : log[i].step = "select")

C6_Witness ==
  lpc = "done" /\ LogSteps = <<"extract", "verify", "select", "assemble">>

-----------------------------------------------------------------------------
(* Properties of the header extractor and the token codec, under CodecSpec *)

Extracted == call.fn = "extractTokenFromHeader"

\* header h is "Bearer ", white space, t, white space, where t is not empty
\* and neither starts nor ends with white space
IsBearerOf(h, t) ==
  /\ t # <<>> /\ t[1] \notin WhiteSpace /\ t[Len(t)] \notin WhiteSpace
  /\ \E a \in 0..Len(h), b \in 0..Len(h) :
       /\ Len(h) = 7 + a + Len(t) + b
       /\ \A i \in 1..7 : h[i] = BearerPrefix[i]
       /\ \A i \in 8..(7 + a) : h[i] \in WhiteSpace
       /\ \A i \in 1..Len(t) : h[7 + a + i] = t[i]
       /\ \A i \in (8 + a + Len(t))..Len(h) : h[i] \in WhiteSpace

Substrings(h) == {SubSeq(h, i, j) : i \in 1..Len(h), j \in 1..Len(h)}

\* the extractor returns t exactly for the headers "Bearer " + padded t
ExtractorContract ==
  Extracted =>
    /\ call.ret.some => (call.header.some /\ IsBearerOf(call.header.val, call.ret.val))
    /\ ~call.ret.some =>
         (call.header.some => \A t \in Substrings(call.header.val) :
                                 ~IsBearerOf(call.header.val, t))

HasLineTerminator(h) == \E i \in 1..Len(h) : h[i] = LF

\* ^Bearer .+$ : the prefix, then one or more characters none of which is a
\* line terminator, to the end of the string (or to a last line terminator,
\* where a dialect lets $ match before it)
MatchesBearerRegex(h) ==
  /\ Len(h) >= 8
  /\ \A i \in 1..7 : h[i] = BearerPrefix[i]
  /\ \E e \in {Len(h), Len(h) - 1} :
       /\ e >= 8
       /\ \A i \in 8..e : h[i] # LF
       /\ e < Len(h) => h[Len(h)] = LF

\* C7 as stated: the extractor returns the trimmed text after "Bearer " if
\* and only if the header is present, starts with "Bearer " and that text is
\* not empty, and every header not matching ^Bearer .+$ yields absent.
C7_ExtractorAsStated ==
  /\ ExtractorContract
  /\ (Extracted /\ (call.header.some => ~MatchesBearerRegex(call.header.val)))
       => ~call.ret.some

\* C7 (amended): the extractor returns the trimmed text after "Bearer " if
\* and only if the header is present, starts with "Bearer " and that text is
\* not empty; every header that holds no line terminator and does not match
\* ^Bearer .+$ yields absent.
C7_Extractor ==
  /\ ExtractorContract
  /\ (/\ Extracted
      /\ call.header.some => (/\ ~HasLineTerminator(call.header.val)
                              /\ ~MatchesBearerRegex(call.header.val)))
       => ~call.ret.some

C7_Witness ==
  /\ Extracted /\ call.ret.some
  /\ Len(call.header.val) > 7 + Len(call.ret.val)

\* C8: verifyToken returns a payload only if the token is signed with the
\* configured secret under HS256, is not expired, carries the expected
\* issuer and one of the expected audiences, and has a non-empty userId; the
\* payload is the token's; every other call fails with the one error.
C8_Verify ==
  call.fn = "verifyToken" =>
    /\ FailureReasons(call.jwt, call.now) # {} => ~call.ret.ok
    /\ call.ret.ok =>
         /\ call.jwt.wellFormed /\ call.jwt.alg = "HS256" /\ call.jwt.key = JWT_SECRET
         /\ (call.jwt.exp.some => call.now < call.jwt.exp.val)
         /\ call.jwt.iss = "policy-sonar"
         /\ call.jwt.aud \cap {"web", "mobile"} # {}
         /\ call.jwt.userId \in {"u1", "u2"}
         /\ call.ret.val.userId = call.jwt.userId
         /\ call.ret.val.role = call.jwt.role
         /\ call.ret.val.sessionId = call.jwt.sessionId
    /\ ~call.ret.ok =>
         call.ret = [ok |-> FALSE, isError |-> TRUE, message |-> "Invalid or expired token"]

C8_Witness ==
  /\ call.fn = "verifyToken" /\ call.ret.ok
  /\ call.jwt.exp.some /\ call.jwt.exp.val = call.now + 1

\* C9: createToken, given a payload with a non-empty userId and either kind,
\* returns a signed token, and verifying that token at any time before its
\* expiry succeeds and returns the payload's userId, role and sessionId.
C9_RoundTrip ==
  (call.fn = "createToken" /\ ~Falsy(call.payload.userId))
    => /\ call.ret.ok
       /\ \A t \in {call.now, call.ret.val.exp.val - 1} :
            LET v == verifyToken(call.ret.val, t)
            IN  /\ v.ok
                /\ v.val.userId = call.payload.userId
                /\ v.val.role = call.payload.role
                /\ v.val.sessionId = call.payload.sessionId

-----------------------------------------------------------------------------
(* Properties of the Auth Context, under AuthSpec *)

\* C10: when a signOut call has settled, whether the backend signed out,
\* returned an error or threw, user and profile are null and isLoading is
\* false.
C10_SignOutClears ==
  lastSettled.op = "signOut"
    => user = Null /\ profile = None /\ isLoading = FALSE


\* C11: when a signIn call has settled for which the backend accepted the
\* credentials with user U (U's profile row exists), the call has resolved
\* without error and the state holds user = U and profile = U's profile.
C11_SignInSuccess ==
  (lastStep.action = "SignInSettle" /\ lastStep.error = Null /\ lastStep.user # Null)
    => /\ lastSettled = Settled("signIn", "resolved", Null)
       /\ user = lastStep.user
       /\ profile = Some(AuthProfileOf(lastStep.user))

\* C12: a signIn call whose backend call fails rejects with exactly the
\* backend's error, its steps leave user and profile as they were, and it
\* leaves isLoading false.
C12_SignInFailure ==
  [][/\ lastStep'.action = "SignInStart" => (user' = user /\ profile' = profile)
     /\ (lastStep'.action = "SignInSettle" /\ lastStep'.error # Null)
          => /\ lastSettled' = Settled("signIn", "rejected", lastStep'.error)
             /\ user' = user
             /\ profile' = profile
             /\ isLoading' = FALSE]_vars

C12_Witness ==
  /\ lastStep.action = "SignInSettle"
  /\ lastStep.error = "Invalid login credentials"
  /\ lastSettled.outcome = "rejected"
  /\ user # Null /\ profile.some

\* the roles of a loaded profile, as a set
RoleSet(p) == {p.roles.val[i] : i \in 1..Len(p.roles.val)}

\* C13: hasRole(role) returns false when no profile is loaded or the loaded
\* profile has no roles field, and otherwise true exactly when role is one
\* of the loaded profile's roles; the call leaves user, profile and
\* isLoading as they were.
C13_HasRole ==
  [][lastStep'.action = "hasRole"
       => /\ profile = None => lastStep'.ret = FALSE
          /\ (profile # None /\ profile.val.roles = None) => lastStep'.ret = FALSE
          /\ (profile # None /\ profile.val.roles # None)
               => (lastStep'.ret <=> lastStep'.role \in RoleSet(profile.val))
          /\ user' = user /\ profile' = profile /\ isLoading' = isLoading]_vars

C13_Witness ==
  /\ lastStep.action = "hasRole" /\ lastStep.role = "analyst"
  /\ lastStep.ret = FALSE
  /\ profile.some /\ profile.val.roles = Some(<<"admin">>)

\* C14: the provider holds exactly one subscription while it is mounted and
\* none before or after; a notification whose session has user U sets
\* user = U and issues a new profile lookup for U; a notification without a
\* session user sets user and profile to null.
C14_Notifications ==
  /\ [](subscribed = IF mounted = "yes" THEN 1 ELSE 0)
  /\ [][lastStep'.action = "Notify"
          => IF lastStep'.user # Null
             THEN /\ user' = lastStep'.user
                  /\ \E i \in Slots :
                       /\ tasks[i] = Idle
                       /\ tasks'[i].at = "fetchProfile"
                       /\ tasks'[i].uid = lastStep'.user
             ELSE user' = Null /\ profile' = None]_vars

C14_Witness ==
  /\ lastStep.action = "Notify" /\ lastStep.user = "u2"
  /\ user = "u2"
  /\ \E i \in Slots : tasks[i] = Task("notify", "fetchProfile", "u2", <<>>)

\* C15: when a refreshSession call has settled whose getUser call resolved,
\* user is the backend's current user, and when that user is not null the
\* call has resolved without error with the user's profile stored.
C15_RefreshSession ==
  (lastStep.action = "RefreshSettle" /\ lastStep.error = Null)
    => /\ user = session
       /\ session # Null
            => /\ lastSettled = Settled("refresh", "resolved", Null)
               /\ profile = Some(AuthProfileOf(session))

\* C17: in every state a loaded profile belongs to the current user.
C17_ProfileOfUser ==
  profile.some => (user # Null /\ profile.val.id = user)

InFlight(ops) == \E i \in Slots : tasks[i].op \in ops

\* C18: once the provider has mounted, isLoading is false whenever no
\* initialization, signIn or signOut is in flight.
C18_LoadingSettles ==
  (mounted # "no" /\ ~InFlight({"init", "signIn", "signOut"})) => isLoading = FALSE

-----------------------------------------------------------------------------
(* Start-up with the signing secret absent *)

SecretAbsent == VITE_JWT_SECRET = Undefined

\* C16, as stated: when the signing-secret configuration value is absent,
\* loading the configuration logs an error and no step of start-up, the
\* loading of the token module included, aborts with an exception.
C16_StartupContinues ==
  SecretAbsent =>
    /\ modules.env = "loaded" => console = <<MissingVariable("JWT_SECRET")>>
    /\ modules.jwt # "failed"
    /\ modules.error = Null

\* C16, amended: when the signing-secret configuration value is absent,
\* loading the configuration logs one error, exports an empty secret and
\* raises no exception; the token module that consumes the secret never
\* loads: its evaluation aborts with 'JWT_SECRET environment variable is not
\* set', and none of its functions is ever called.
C16_EnvLogsJwtAborts ==
  SecretAbsent =>
    /\ modules.env = "loaded" =>
         /\ env = Some([JWT_SECRET |-> ""])
         /\ console = <<MissingVariable("JWT_SECRET")>>
    /\ modules.env = "unloaded" => (console = <<>> /\ modules.jwt = "unloaded")
    /\ modules.jwt # "loaded"
    /\ modules.jwt = "failed" <=> modules.error = SecretNotSet
    /\ modules.jwt = "unloaded" <=> modules.error = Null
    /\ call.fn = "none"

C16_Witness ==
  /\ SecretAbsent
  /\ modules = [env |-> "loaded", jwt |-> "failed", error |-> SecretNotSet]
  /\ console = <<MissingVariable("JWT_SECRET")>>

-----------------------------------------------------------------------------
(* WebContainer: one boot *)

\* C19: across any number of sequential or overlapping calls of
\* initializeWebContainer, WebContainer.boot is invoked at most once and every
\* call that passes auth initialization returns the same instance promise;
\* loaded is true only after that boot has resolved; and a getWebContainer
\* call made while no boot has been started fails with the 'not initialized'
\* error.
C19_SingleBoot ==
  /\ [](/\ Len(boots) <= 1
        /\ webcontainerInstance = (IF boots = <<>> THEN None ELSE Some(1))
        /\ \A i \in WebSlots :
             (wcalls[i].fn = "initializeWebContainer" /\ wcalls[i].at = "returned"
                /\ hasWindow)
               => (wcalls[i].ret = Some(1) /\ wcalls[i].ret = webcontainerInstance)
        /\ webcontainerContext.loaded => (boots # <<>> /\ boots[1].boot = "resolved"))
  /\ [][\A i \in WebSlots :
          (wcalls[i] = WIdle /\ wcalls'[i].fn = "getWebContainer" /\ boots = <<>>)
            => (wcalls'[i].at = "rejected" /\ wcalls'[i].error = NotInitialized)]_vars

C19_Witness ==
  /\ Len(boots) = 1 /\ boots[1].boot = "resolved" /\ webcontainerContext.loaded
  /\ wcalls[1] = WCall("initializeWebContainer", "module", "returned", Some(1), Null)
  /\ wcalls[2] = WCall("initializeWebContainer", "caller", "returned", Some(1), Null)
  /\ wcalls[3] = WCall("getWebContainer", "caller", "rejected", None, NotInitialized)

====
